---- MODULE Spec2Model ----
(***************************************************************************)
(* Model of src/src/lib.rs: the non-blocking create/update/read Lock and   *)
(* the ring-buffer Storage built on it.                                    *)
(*                                                                         *)
(* LockSpec    : NumProcs callers share one Lock (as in test_lock_api) and *)
(*               call create, update and read in any interleaving.         *)
(* StorageSpec : NumThreads callers share one Storage of Size slots and    *)
(*               call put and get in any interleaving.                     *)
(* Every atomic instruction of the source is one step.                     *)
(***************************************************************************)
EXTENDS Integers, Sequences, FiniteSets

\* ------------------------------------------------------------------ bounds
\* Callers sharing the one Lock of LockSpec.
NumProcs == 3
Procs == 1..NumProcs

\* Slots of the Storage (StorageHdr.size), its callers, and the number of put
\* calls in a behaviour.  Vals are the values a put callback may write.
Size == 2
NumThreads == 2
MaxPuts == 3
Threads == 1..NumThreads
Positions == 0..(Size - 1)
Vals == {1, 2}

\* ----------------------------------------------------------------- Option
None == <<>>
Some(v) == <<v>>
IsSome(o) == o /= None

\* Outcomes a create/update callback may return: Option<R>.
CallbackResults == {None, Some(1)}

\* --------------------------------------------------------- atomic helpers
\* Mutant: the exchange stores new without comparing (a plain store).
CompareExchangeWeakMutBlindStore(cur, expected, new) ==
    {[ok |-> TRUE, val |-> new, seen |-> cur]}

\* AtomicI32::compare_exchange_weak(expected, new): the outcomes on current
\* value cur.  It may fail spuriously even when cur = expected; a failure
\* returns the current value and stores nothing.
CompareExchangeWeak(cur, expected, new) ==
    {[ok |-> FALSE, val |-> cur, seen |-> cur]}
        \cup (IF cur = expected
              THEN {[ok |-> TRUE, val |-> new, seen |-> cur]}
              ELSE {})

\* Mutant: create's exchange stores -1 whether or not the comparison holds.
CreateClaimMutFailStores(cur) ==
    {[ok |-> cur = 0, val |-> -1, seen |-> cur]}

\* Mutant: create claims from the idle state 1, as update does.
CreateClaimMutFromIdle(cur) == CompareExchangeWeak(cur, 1, -1)

\* Mutant: create also claims a slot that is occupied and idle.
CreateClaimMutOccupied(cur) ==
    {[ok |-> FALSE, val |-> cur, seen |-> cur]}
        \cup (IF cur \in {0, 1}
              THEN {[ok |-> TRUE, val |-> -1, seen |-> cur]}
              ELSE {})

\* Lock::create's claim: compare_exchange_weak(0, -1).
CreateClaim(cur) == CompareExchangeWeak(cur, 0, -1)

\* Mutant: update claims from any occupied state, readers or not.
UpdateClaimMutAnyPositive(cur) ==
    {[ok |-> FALSE, val |-> cur, seen |-> cur]}
        \cup (IF cur >= 1
              THEN {[ok |-> TRUE, val |-> -1, seen |-> cur]}
              ELSE {})

\* Mutant: update claims from the empty state 0, as create does.
UpdateClaimMutFromEmpty(cur) == CompareExchangeWeak(cur, 0, -1)

\* Lock::update's claim: compare_exchange_weak(1, -1).
UpdateClaim(cur) == CompareExchangeWeak(cur, 1, -1)

\* Mutant: read refuses only the empty state, not the write lock.
ReadNextMutNonZero(x) == IF x /= 0 THEN Some(x + 1) ELSE None

\* Mutant: read accepts the empty state (>= for >).
ReadNextMutGeq(x) == IF x >= 0 THEN Some(x + 1) ELSE None

\* The closure Lock::read hands to fetch_update.
ReadNext(x) == IF x > 0 THEN Some(x + 1) ELSE None

\* Mutant: the position is taken one past id % size.
PosMutOffByOne(id) == (id + 1) % Size

\* The position a Token's id names: id % size.
Pos(id) == id % Size

\* Mutant: the slot is marked empty whatever the callback returned.
CommitStateMutAlwaysZero(r) == 0

\* Mutant: the slot is marked occupied whatever the callback returned.
CommitStateMutAlwaysOne(r) == 1

\* The value create/update store once the callback has returned r.
CommitState(r) == IF IsSome(r) THEN 1 ELSE 0

\* ---------------------------------------------------------- Storage state
VARIABLES
    next_id,    \* StorageHdr.next_id
    item_hdrs,  \* per position: ItemHdr {lock, refcount, id}
    items,      \* per position: the data of the slot
    st,         \* per thread: position in its call and its locals
    tokens,     \* ids of the Tokens put has returned and no get has consumed
    issued,     \* every Token put has returned, with the value its f wrote
    spurious    \* some create claim of a put has failed spuriously

storageVars == <<next_id, item_hdrs, items, st, tokens, issued, spurious>>

\* ------------------------------------------------------------- Lock state
VARIABLES
    refcount,   \* Lock.refcount of the shared lock
    th,         \* per caller: position in its call and its locals
    last,       \* the call that returned last: caller, operation, result
    pre         \* refcount just before the first of the reads now in flight

lockVars == <<refcount, th, last, pre>>

vars == <<refcount, th, last, pre, next_id, item_hdrs, items, st, tokens,
          issued, spurious>>

\* A caller between calls.  prev is fetch_update's local, r the callback's
\* result, fobs the lock state the callback observed.
Idle == [pc |-> "idle", prev |-> 0, r |-> None, fobs |-> 0]

\* A finished call of caller p: seen is the lock state its claim met, ret
\* what it returned, ran whether it invoked its callback.
Returned(p, op, seen, ret, ran, fobs) ==
    [p |-> p, op |-> op, seen |-> seen, ret |-> ret, ran |-> ran,
     fobs |-> fobs]

\* The callers whose read has incremented the lock and not yet decremented it.
Readers == {p \in Procs : th[p].pc \in {"read_f", "read_sub"}}

\* The callers that hold the write lock.
Writers == {p \in Procs : th[p].pc \in {"create_f", "create_store",
                                          "update_f", "update_store"}}

\* create: the compare-and-exchange; a failure returns None at once.
CreateCas(p) ==
    /\ th[p].pc = "idle"
    /\ \E o \in CreateClaim(refcount) :
        /\ refcount' = o.val
        /\ IF o.ok
           THEN /\ th' = [th EXCEPT ![p].pc = "create_f"]
                /\ UNCHANGED last
           ELSE /\ last' = Returned(p, "create", o.seen, None, FALSE, 0)
                /\ UNCHANGED th
    /\ UNCHANGED pre
    /\ UNCHANGED storageVars

\* create: the callback f runs and returns Some or None.
CreateF(p) ==
    /\ th[p].pc = "create_f"
    /\ \E r \in CallbackResults :
        th' = [th EXCEPT ![p].pc = "create_store", ![p].r = r,
                         ![p].fobs = refcount]
    /\ UNCHANGED <<refcount, last, pre>>
    /\ UNCHANGED storageVars

\* create: the release store and the return of f's outcome.
CreateStore(p) ==
    /\ th[p].pc = "create_store"
    /\ refcount' = CommitState(th[p].r)
    /\ th' = [th EXCEPT ![p] = Idle]
    /\ last' = Returned(p, "create", 0, th[p].r, TRUE, th[p].fobs)
    /\ UNCHANGED pre
    /\ UNCHANGED storageVars

\* update: the compare-and-exchange; a failure returns None at once.
UpdateCas(p) ==
    /\ th[p].pc = "idle"
    /\ \E o \in UpdateClaim(refcount) :
        /\ refcount' = o.val
        /\ IF o.ok
           THEN /\ th' = [th EXCEPT ![p].pc = "update_f"]
                /\ UNCHANGED last
           ELSE /\ last' = Returned(p, "update", o.seen, None, FALSE, 0)
                /\ UNCHANGED th
    /\ UNCHANGED pre
    /\ UNCHANGED storageVars

\* update: the callback f runs and returns Some or None.
UpdateF(p) ==
    /\ th[p].pc = "update_f"
    /\ \E r \in CallbackResults :
        th' = [th EXCEPT ![p].pc = "update_store", ![p].r = r,
                         ![p].fobs = refcount]
    /\ UNCHANGED <<refcount, last, pre>>
    /\ UNCHANGED storageVars

\* update: the release store and the return of f's outcome.
UpdateStore(p) ==
    /\ th[p].pc = "update_store"
    /\ refcount' = CommitState(th[p].r)
    /\ th' = [th EXCEPT ![p] = Idle]
    /\ last' = Returned(p, "update", 1, th[p].r, TRUE, th[p].fobs)
    /\ UNCHANGED pre
    /\ UNCHANGED storageVars

\* read: fetch_update's initial load.  fetch_update returns Err, and read
\* None, as soon as the closure refuses the value it was given.
ReadLoad(p) ==
    /\ th[p].pc = "idle"
    /\ IF IsSome(ReadNext(refcount))
       THEN /\ th' = [th EXCEPT ![p].pc = "read_cas", ![p].prev = refcount]
            /\ UNCHANGED last
       ELSE /\ last' = Returned(p, "read", refcount, None, FALSE, 0)
            /\ UNCHANGED th
    /\ UNCHANGED <<refcount, pre>>
    /\ UNCHANGED storageVars

\* read: one turn of fetch_update's loop, compare_exchange_weak(prev, next).
\* A failure hands the closure the value found instead.
ReadCas(p) ==
    /\ th[p].pc = "read_cas"
    /\ \E o \in CompareExchangeWeak(refcount, th[p].prev,
                                    ReadNext(th[p].prev)[1]) :
        /\ refcount' = o.val
        /\ IF o.ok
           THEN /\ th' = [th EXCEPT ![p].pc = "read_f"]
                /\ pre' = IF Readers = {} THEN refcount ELSE pre
                /\ UNCHANGED last
           ELSE IF IsSome(ReadNext(o.seen))
           THEN /\ th' = [th EXCEPT ![p].prev = o.seen]
                /\ UNCHANGED <<last, pre>>
           ELSE /\ th' = [th EXCEPT ![p] = Idle]
                /\ last' = Returned(p, "read", o.seen, None, FALSE, 0)
                /\ UNCHANGED pre
    /\ UNCHANGED storageVars

\* read: the callback f runs; here it returns the lock state it observes.
ReadF(p) ==
    /\ th[p].pc = "read_f"
    /\ th' = [th EXCEPT ![p].pc = "read_sub", ![p].r = Some(refcount),
                        ![p].fobs = refcount]
    /\ UNCHANGED <<refcount, last, pre>>
    /\ UNCHANGED storageVars

\* read: the release decrement and the return of Some(f's result).
ReadFetchSub(p) ==
    /\ th[p].pc = "read_sub"
    /\ refcount' = refcount - 1
    /\ th' = [th EXCEPT ![p] = Idle]
    /\ last' = Returned(p, "read", th[p].prev, Some(th[p].r[1]), TRUE,
                        th[p].fobs)
    /\ UNCHANGED pre
    /\ UNCHANGED storageVars

LockNext ==
    \E p \in Procs :
        \/ CreateCas(p)
        \/ CreateF(p)
        \/ CreateStore(p)
        \/ UpdateCas(p)
        \/ UpdateF(p)
        \/ UpdateStore(p)
        \/ ReadLoad(p)
        \/ ReadCas(p)
        \/ ReadF(p)
        \/ ReadFetchSub(p)

\* ------------------------------------------------------- Storage actions
\* ItemHdr::default().
ItemHdrDefault == [lock |-> 0, refcount |-> 0, id |-> 0]

\* A thread between calls.  id_start, i and pos are put's locals, token is
\* get's argument, prev is fetch_update's local, v and b are what put's
\* callback f wrote and returned, r is a callback's result, retried tells
\* that fetch_update's loop has taken another turn.
TIdle == [pc |-> "idle", id_start |-> 0, i |-> 0, pos |-> 0, token |-> 0,
          prev |-> 0, v |-> 0, b |-> TRUE, r |-> None, retried |-> FALSE]

\* Lock::default() for the shared lock; StorageHdr::new(Size) with
\* default item headers and zeroed data for the storage.
Init ==
    /\ refcount = 0
    /\ th = [p \in Procs |-> Idle]
    /\ last = Returned(0, "none", 0, None, FALSE, 0)
    /\ pre = 0
    /\ next_id = 0
    /\ item_hdrs = [pos \in Positions |-> ItemHdrDefault]
    /\ items = [pos \in Positions |-> 0]
    /\ st = [t \in Threads |-> TIdle]
    /\ tokens = {}
    /\ issued = {}
    /\ spurious = FALSE

\* put: next_id.fetch_add(1).
PutFetchAdd(t) ==
    /\ st[t].pc = "idle"
    /\ next_id < MaxPuts
    /\ next_id' = next_id + 1
    /\ st' = [st EXCEPT ![t].pc = "put_cas", ![t].id_start = next_id]
    /\ UNCHANGED <<item_hdrs, items, tokens>>
    /\ UNCHANGED <<issued, spurious>>
    /\ UNCHANGED lockVars

\* PutNextPosition with a lap that is one position too long.
PutNextPositionMutExtraAttempt(t) ==
    IF st[t].i < Size
    THEN st' = [st EXCEPT ![t].pc = "put_cas", ![t].i = st[t].i + 1,
                          ![t].r = None]
    ELSE st' = [st EXCEPT ![t] = [TIdle EXCEPT !.pc = "put_none"]]

\* put: the loop moves on from a position it could not claim; after the last
\* position of the lap put is left to return None.
PutNextPosition(t) ==
    IF st[t].i + 1 < Size
    THEN st' = [st EXCEPT ![t].pc = "put_cas", ![t].i = st[t].i + 1,
                          ![t].r = None]
    ELSE st' = [st EXCEPT ![t] = [TIdle EXCEPT !.pc = "put_none"]]

\* put: hdr.lock.create's compare-and-exchange on position (id_start+i) % size.
PutCreateCas(t) ==
    /\ st[t].pc = "put_cas"
    /\ LET pos == Pos(st[t].id_start + st[t].i) IN
        \E o \in CreateClaim(item_hdrs[pos].lock) :
            /\ item_hdrs' = [item_hdrs EXCEPT ![pos].lock = o.val]
            /\ IF o.ok
               THEN st' = [st EXCEPT ![t].pc = "put_create_f", ![t].pos = pos]
               ELSE PutNextPosition(t)
            /\ spurious' = (spurious \/ (~o.ok /\ o.seen = 0))
    /\ UNCHANGED <<next_id, items, tokens, issued>>
    /\ UNCHANGED lockVars

\* put: create's callback returns Some(&mut items[pos]).
PutCreateF(t) ==
    /\ st[t].pc = "put_create_f"
    /\ st' = [st EXCEPT ![t].pc = "put_create_store",
                        ![t].r = Some(st[t].pos)]
    /\ UNCHANGED <<next_id, item_hdrs, items, tokens>>
    /\ UNCHANGED <<issued, spurious>>
    /\ UNCHANGED lockVars

\* put: create's release store; with Some(item) in hand put calls f.
PutCreateStore(t) ==
    /\ st[t].pc = "put_create_store"
    /\ item_hdrs' = [item_hdrs EXCEPT
                        ![st[t].pos].lock = CommitState(st[t].r)]
    /\ IF IsSome(st[t].r)
       THEN st' = [st EXCEPT ![t].pc = "put_f", ![t].r = None]
       ELSE PutNextPosition(t)
    /\ UNCHANGED <<next_id, items, tokens>>
    /\ UNCHANGED <<issued, spurious>>
    /\ UNCHANGED lockVars

\* put: f(item) writes a value v to the slot's data and returns b, which
\* put drops.
PutF(t) ==
    /\ st[t].pc = "put_f"
    /\ \E v \in Vals, b \in BOOLEAN :
        /\ items' = [items EXCEPT ![st[t].pos] = v]
        /\ st' = [st EXCEPT ![t].pc = "put_ret", ![t].v = v, ![t].b = b]
    /\ UNCHANGED <<next_id, item_hdrs, tokens>>
    /\ UNCHANGED <<issued, spurious>>
    /\ UNCHANGED lockVars

\* put: return Some(Token {id}).
PutReturn(t) ==
    /\ st[t].pc = "put_ret"
    /\ tokens' = tokens \cup {st[t].id_start + st[t].i}
    /\ issued' = issued \cup {[id |-> st[t].id_start + st[t].i,
                                v |-> st[t].v]}
    /\ st' = [st EXCEPT ![t] = TIdle]
    /\ UNCHANGED <<next_id, item_hdrs, items, spurious>>
    /\ UNCHANGED lockVars

\* put: return None after a lap with no position claimed.
PutReturnNone(t) ==
    /\ st[t].pc = "put_none"
    /\ st' = [st EXCEPT ![t] = TIdle]
    /\ UNCHANGED <<next_id, item_hdrs, items, tokens>>
    /\ UNCHANGED <<issued, spurious>>
    /\ UNCHANGED lockVars

\* get: the caller gives up a Token; hdr.lock.read's initial load on position
\* token.id % size.
GetReadLoad(t) ==
    /\ st[t].pc = "idle"
    /\ \E k \in tokens :
        /\ tokens' = tokens \ {k}
        /\ LET x == item_hdrs[Pos(k)].lock IN
            st' = [st EXCEPT ![t] =
                    [TIdle EXCEPT !.token = k, !.pos = Pos(k),
                                  !.pc = IF IsSome(ReadNext(x))
                                         THEN "get_cas" ELSE "get_none",
                                  !.prev = IF IsSome(ReadNext(x))
                                           THEN x ELSE 0]]
    /\ UNCHANGED <<next_id, item_hdrs, items>>
    /\ UNCHANGED <<issued, spurious>>
    /\ UNCHANGED lockVars

\* get: one turn of fetch_update's loop in hdr.lock.read.
GetReadCas(t) ==
    /\ st[t].pc = "get_cas"
    /\ \E o \in CompareExchangeWeak(item_hdrs[st[t].pos].lock, st[t].prev,
                                    ReadNext(st[t].prev)[1]) :
        /\ item_hdrs' = [item_hdrs EXCEPT ![st[t].pos].lock = o.val]
        /\ st' = [st EXCEPT
                    ![t].pc = IF o.ok THEN "get_f"
                              ELSE IF IsSome(ReadNext(o.seen))
                                   THEN "get_cas" ELSE "get_none",
                    ![t].prev = IF ~o.ok /\ IsSome(ReadNext(o.seen))
                                THEN o.seen ELSE 0,
                    ![t].retried = ~o.ok /\ IsSome(ReadNext(o.seen))]
    /\ UNCHANGED <<next_id, items, tokens>>
    /\ UNCHANGED <<issued, spurious>>
    /\ UNCHANGED lockVars

\* get: read's callback applies f to the slot's data; f returns what it sees.
GetF(t) ==
    /\ st[t].pc = "get_f"
    /\ st' = [st EXCEPT ![t].pc = "get_sub", ![t].r = Some(items[st[t].pos])]
    /\ UNCHANGED <<next_id, item_hdrs, items, tokens>>
    /\ UNCHANGED <<issued, spurious>>
    /\ UNCHANGED lockVars

\* get: read's release decrement; get is left to return Some(f's result).
GetFetchSub(t) ==
    /\ st[t].pc = "get_sub"
    /\ item_hdrs' = [item_hdrs EXCEPT
                        ![st[t].pos].lock = item_hdrs[st[t].pos].lock - 1]
    /\ st' = [st EXCEPT ![t].pc = "get_ret"]
    /\ UNCHANGED <<next_id, items, tokens>>
    /\ UNCHANGED <<issued, spurious>>
    /\ UNCHANGED lockVars

\* get: return Some(r), or None when read's increment never applied.
GetReturn(t) ==
    /\ st[t].pc \in {"get_ret", "get_none"}
    /\ st' = [st EXCEPT ![t] = TIdle]
    /\ UNCHANGED <<next_id, item_hdrs, items, tokens>>
    /\ UNCHANGED <<issued, spurious>>
    /\ UNCHANGED lockVars

StorageNext ==
    \E t \in Threads :
        \/ PutFetchAdd(t)
        \/ PutCreateCas(t)
        \/ PutCreateF(t)
        \/ PutCreateStore(t)
        \/ PutF(t)
        \/ PutReturn(t)
        \/ PutReturnNone(t)
        \/ GetReadLoad(t)
        \/ GetReadCas(t)
        \/ GetF(t)
        \/ GetFetchSub(t)
        \/ GetReturn(t)

\* ---------------------------------------------------------- specifications
\* One Lock shared by Procs; the Storage is left as constructed.
LockSpec == Init /\ [][LockNext]_vars

\* One Storage shared by Threads; the stand-alone Lock is left as constructed.
StorageSpec == Init /\ [][StorageNext]_vars

\* Sequential use of the Storage: a put or a get starts only when no other
\* call is in flight.
NoCallInFlight == \A u \in Threads : st[u].pc = "idle"

SeqPutFetchAdd(t) == NoCallInFlight /\ PutFetchAdd(t)

SeqGetReadLoad(t) == NoCallInFlight /\ GetReadLoad(t)

SeqNext ==
    \E t \in Threads :
        \/ SeqPutFetchAdd(t)
        \/ PutCreateCas(t)
        \/ PutCreateF(t)
        \/ PutCreateStore(t)
        \/ PutF(t)
        \/ PutReturn(t)
        \/ PutReturnNone(t)
        \/ SeqGetReadLoad(t)
        \/ GetReadCas(t)
        \/ GetF(t)
        \/ GetFetchSub(t)
        \/ GetReturn(t)

SeqSpec == Init /\ [][SeqNext]_vars

\* ------------------------------------------------------- steps of a caller
\* Caller p's claim attempt wins: it leaves "idle" (or read's loop) holding
\* the lock.
CreateWins(p) == th[p].pc = "idle" /\ th'[p].pc = "create_f"
UpdateWins(p) == th[p].pc = "idle" /\ th'[p].pc = "update_f"
ReadWins(p) == th[p].pc = "read_cas" /\ th'[p].pc = "read_f"

\* Caller p, not yet holding the lock, returns from a call of op in this step.
GivesUp(p, op) ==
    /\ th[p].pc \in {"idle", "read_cas"}
    /\ th'[p].pc = "idle"
    /\ last' /= last
    /\ last'.p = p
    /\ last'.op = op

\* Caller p returns None in this step without having run its callback, and
\* the lock is left as it was.
ReturnsAbsent(p) ==
    /\ th'[p] = Idle
    /\ last'.p = p
    /\ last'.ret = None
    /\ ~last'.ran
    /\ refcount' = refcount

\* Caller p takes a step.
Acts(p) == th'[p] /= th[p] \/ (last' /= last /\ last'.p = p)

\* C1: while a create or update is in flight (state -1), every step another
\* caller takes in a read, update or create ends that call with None, its
\* callback not run.
C1_WriteLockedRejectsAll ==
    [][refcount = -1 =>
        \A p \in Procs \ Writers : Acts(p) => ReturnsAbsent(p)]_vars

C1_Witness ==
    /\ refcount = -1
    /\ Writers /= {}
    /\ last.p \in Procs \ Writers
    /\ last.op = "read"
    /\ last.seen = -1
    /\ last.ret = None
    /\ ~last.ran

\* C2: while a read is in flight (state > 1) every update and create returns
\* None; a writer claim wins only with no read in flight, update from state
\* exactly 1.
C2_ReadersRejectWriters ==
    [][/\ (Readers /= {} <=> refcount > 1)
       /\ \A p \in Procs :
            /\ (Readers /= {} /\ (GivesUp(p, "create") \/ GivesUp(p, "update"))
                    => ReturnsAbsent(p))
            /\ (CreateWins(p) \/ UpdateWins(p) => Readers = {})
            /\ (UpdateWins(p) => refcount = 1)
            /\ (Readers /= {} /\ th[p].pc = "idle" /\ Acts(p)
                    => th'[p].pc \in {"idle", "read_cas"})]_vars

C2_Witness ==
    /\ Readers /= {}
    /\ refcount > 1
    /\ last.op = "update"
    /\ last.seen > 1
    /\ last.ret = None
    /\ ~last.ran

\* C3: create wins only from state 0, moving it to -1; the callback runs at
\* -1; the state then becomes 1 on Some and 0 on None and the callback's
\* outcome is returned; from any other state create returns None.
C3_Create ==
    [][\A p \in Procs :
        /\ (CreateWins(p) => refcount = 0 /\ refcount' = -1)
        /\ (th[p].pc = "create_f" /\ Acts(p)
                => /\ refcount = -1
                   /\ th'[p].pc = "create_store"
                   /\ th'[p].fobs = -1)
        /\ (th[p].pc = "create_store" /\ Acts(p)
                => /\ refcount = -1
                   /\ refcount' = (IF th[p].r = None THEN 0 ELSE 1)
                   /\ last'.p = p /\ last'.op = "create"
                   /\ last'.ret = th[p].r /\ last'.ran)
        /\ (refcount /= 0 /\ GivesUp(p, "create") => ReturnsAbsent(p))
        /\ (refcount /= 0 /\ th[p].pc = "idle" => ~CreateWins(p))]_vars

C3_Witness ==
    /\ last.op = "create"
    /\ last.ran
    /\ last.fobs = -1
    /\ last.ret = Some(1)
    /\ refcount = 1

\* C4: update wins only from state exactly 1, moving it to -1; the callback
\* runs at -1; the state then becomes 1 on Some and 0 on None; from state 0,
\* -1 or > 1 update returns None.
C4_Update ==
    [][\A p \in Procs :
        /\ (UpdateWins(p) => refcount = 1 /\ refcount' = -1)
        /\ (th[p].pc = "update_f" /\ Acts(p)
                => /\ refcount = -1
                   /\ th'[p].pc = "update_store"
                   /\ th'[p].fobs = -1)
        /\ (th[p].pc = "update_store" /\ Acts(p)
                => /\ refcount = -1
                   /\ refcount' = (IF th[p].r = None THEN 0 ELSE 1)
                   /\ last'.p = p /\ last'.op = "update"
                   /\ last'.ret = th[p].r /\ last'.ran)
        /\ (refcount /= 1 /\ GivesUp(p, "update") => ReturnsAbsent(p))
        /\ (refcount /= 1 /\ th[p].pc = "idle" => ~UpdateWins(p))]_vars

C4_Witness ==
    /\ last.op = "update"
    /\ last.ran
    /\ last.fobs = -1
    /\ last.ret = None
    /\ refcount = 0

\* C5: read wins only from a state > 0, which it increments by one; its
\* callback, with no other reader, observes 2; it then decrements the state
\* by one and returns Some of the callback's result; meeting state 0 or -1 it
\* returns None without running the callback.
C5_Read ==
    [][\A p \in Procs :
        /\ (ReadWins(p) => refcount > 0 /\ refcount' = refcount + 1)
        /\ (th[p].pc = "read_f" /\ Acts(p)
                => /\ th'[p].pc = "read_sub"
                   /\ refcount' = refcount
                   /\ (Readers = {p} => th'[p].fobs = 2))
        /\ (th[p].pc = "read_sub" /\ Acts(p)
                => /\ refcount' = refcount - 1
                   /\ last'.p = p /\ last'.op = "read"
                   /\ last'.ret = Some(th[p].r[1]) /\ last'.ran)
        /\ (refcount <= 0 /\ th[p].pc = "read_cas" /\ Acts(p)
                => GivesUp(p, "read"))
        /\ (refcount <= 0 /\ th[p].pc = "idle" => th'[p].pc /= "read_cas")
        /\ (refcount <= 0 /\ GivesUp(p, "read") => ReturnsAbsent(p))]_vars

C5_Witness ==
    /\ last.op = "read"
    /\ last.ran
    /\ last.ret = Some(2)
    /\ last.seen = 1
    /\ refcount = 1

\* C6: each successful read raises the state by exactly one and later lowers
\* it by exactly one, and when the last of the reads in flight finishes the
\* state is what it was before the first of them started.
C6_ReadsSymmetric ==
    [][/\ \A p \in Procs :
            /\ (ReadWins(p) => refcount' = refcount + 1)
            /\ (th[p].pc = "read_sub" /\ Acts(p) => refcount' = refcount - 1)
       /\ (Readers /= {} /\ Readers' = {} => refcount' = pre)
       /\ (Readers /= {} => refcount = pre + Cardinality(Readers))]_vars

C6_Witness ==
    /\ Readers = {}
    /\ last.op = "read"
    /\ last.ret = Some(NumProcs + 1)
    /\ pre = 1
    /\ refcount = pre

\* C7: whenever the lock is at state 0, however it got there, a create by any
\* caller between calls can claim it, and no update can.
C7_EmptyReclaimable ==
    refcount = 0 =>
        \A p \in Procs : th[p].pc = "idle" =>
            /\ ENABLED (CreateCas(p) /\ CreateWins(p))
            /\ ~ENABLED (UpdateCas(p) /\ UpdateWins(p))

C7_Witness ==
    /\ refcount = 0
    /\ last.op = "update"
    /\ last.ran
    /\ last.ret = None
    /\ \E p \in Procs : th[p].pc = "idle"

\* --------------------------------------------------------- Storage claims
\* Thread t is in a put that has claimed position pos and not yet returned.
Claimed(t, pos) ==
    /\ st[t].pc \in {"put_create_f", "put_create_store", "put_f", "put_ret"}
    /\ st[t].pos = pos

\* Thread t is in a get on position pos.
Getting(t, pos) ==
    /\ st[t].pc \in {"get_cas", "get_f", "get_sub", "get_ret", "get_none"}
    /\ st[t].pos = pos

\* The id of the Token thread t's put is about to return.
PutId(t) == st[t].id_start + st[t].i

\* C8 as stated: a slot's data changes only while the slot's lock is in the
\* write-locked state -1.
C8_MutatedOnlyWriteLocked ==
    [][\A pos \in Positions :
        items'[pos] /= items[pos] => item_hdrs[pos].lock = -1]_vars

\* C8 amended: a slot's data changes only in the step where put's callback f
\* runs, for the single thread that won the slot's transition 0 -> -1; by
\* then that thread has released the lock to state 1, no Token for the slot
\* exists and no get is on it.
C8_MutatedOnlyByWinner ==
    [][\A pos \in Positions :
        /\ \A t \in Threads :
            st[t].pc = "put_cas" /\ st'[t].pc = "put_create_f"
                    /\ st'[t].pos = pos
                => item_hdrs[pos].lock = 0 /\ item_hdrs'[pos].lock = -1
        /\ items'[pos] /= items[pos] =>
            \E t \in Threads :
                /\ st[t].pc = "put_f" /\ st[t].pos = pos
                /\ st'[t].pc = "put_ret"
                /\ \A u \in Threads \ {t} :
                        ~Claimed(u, pos) /\ ~Getting(u, pos)
                /\ \A k \in tokens : Pos(k) /= pos
                /\ item_hdrs[pos].lock = 1]_vars

C8_Witness ==
    \E t \in Threads :
        /\ st[t].pc = "put_ret"
        /\ items[st[t].pos] = st[t].v
        /\ st[t].v \in Vals
        /\ item_hdrs[st[t].pos].lock = 1

\* C9 as stated: a get whose token's id differs from the id stored in the
\* header of slot (token.id mod size) never invokes its callback on the
\* slot's data and never returns Some.
C9_StaleGetAbsent ==
    \A t \in Threads :
        /\ st[t].pc \in {"get_cas", "get_f", "get_sub", "get_ret"}
        /\ item_hdrs[Pos(st[t].token)].id /= st[t].token
        => st[t].pc \notin {"get_sub", "get_ret"}

\* C10 as stated: when put returns Token{id}, the header of slot
\* (id mod size) has external reference count 1 and stored id equal to id.
C10_PutPublishesHeader ==
    \A t \in Threads :
        st[t].pc = "put_ret" =>
            /\ item_hdrs[Pos(PutId(t))].refcount = 1
            /\ item_hdrs[Pos(PutId(t))].id = PutId(t)

\* C11 as stated: when put's callback f returns false the insertion is
\* abandoned: put does not go on to return a Token for a slot it leaves
\* occupied.
C11_DeclinedPutAbandoned ==
    \A t \in Threads :
        ~(st[t].pc = "put_ret" /\ ~st[t].b /\ item_hdrs[st[t].pos].lock /= 0)

\* The ids of the Tokens put has returned so far.
IssuedIds == {k.id : k \in issued}

\* Every slot is occupied and idle, holding the value written for id pos.
FilledInOrder ==
    \A pos \in Positions :
        /\ item_hdrs[pos].lock = 1
        /\ [id |-> pos, v |-> items[pos]] \in issued

\* C12 as stated: in sequential use of a fresh storage the first Size puts
\* return ids 0..Size-1 at positions 0..Size-1 in order, and the next put
\* returns absent with every slot still as those puts left it.
C12_SequentialFill ==
    \A t \in Threads :
        /\ st[t].pc = "put_ret" =>
            /\ st[t].id_start < Size
            /\ PutId(t) = st[t].id_start
            /\ st[t].pos = st[t].id_start
            /\ IssuedIds = 0..(st[t].id_start - 1)
        /\ st[t].pc = "put_none" =>
            /\ next_id > Size
            /\ IssuedIds = Positions
            /\ FilledInOrder

\* C12 amended: the same, for sequential puts none of whose compare-and-
\* exchanges has failed spuriously; and, spurious failures or not, once Size
\* puts have succeeded no later put claims a slot.
C12_SequentialFillNoSpurious ==
    /\ ~spurious => C12_SequentialFill
    /\ Cardinality(issued) = Size =>
            \A t \in Threads, pos \in Positions : ~Claimed(t, pos)

C12_Witness ==
    /\ ~spurious
    /\ next_id = Size + 1
    /\ IssuedIds = Positions
    /\ FilledInOrder
    /\ \E t \in Threads : st[t].pc = "put_none"

\* C13 as stated, for the reference count the source leaves in the header: a
\* put that scans a ring whose slots are all occupied and idle returns absent
\* only if every slot is still referenced; a slot whose external reference
\* count is 0 is reclaimed.
C13_ReleasedSlotReclaimed ==
    \A t \in Threads :
        /\ st[t].pc = "put_none"
        /\ \A pos \in Positions : item_hdrs[pos].lock = 1
        => \A pos \in Positions : item_hdrs[pos].refcount > 0

\* Thread t takes a step.
TActs(t) == st'[t] /= st[t]

\* C14: a get with a Token that put returned never returns absent, and its
\* callback observes exactly the value that put's callback wrote, in any
\* interleaving with other puts and gets.
C14_GetObservesPut ==
    /\ \A id \in tokens : \E k \in issued : k.id = id
    /\ \A t \in Threads :
        /\ st[t].pc /= "get_none"
        /\ st[t].pc \in {"get_cas", "get_f", "get_sub", "get_ret"} =>
                \E k \in issued : k.id = st[t].token
        /\ st[t].pc \in {"get_sub", "get_ret"} =>
                \A k \in issued :
                    k.id = st[t].token => st[t].r = Some(k.v)

C14_Witness ==
    \E t, u \in Threads :
        /\ st[t].pc = "get_ret"
        /\ st[t].r = Some(2)
        /\ [id |-> st[t].token, v |-> 2] \in issued
        /\ st[t].token = 1
        /\ u /= t
        /\ st[u].pc = "put_ret"

\* C15: every put draws the next value of next_id, which only grows, so no
\* two puts start from the same value; no put returns an id a put has
\* returned before; and a put claims only a position no put has claimed.
C15_PutsDistinct ==
    [][\A t \in Threads :
        /\ next_id' >= next_id
        /\ (st[t].pc = "idle" /\ st'[t].pc = "put_cas"
                => /\ st'[t].id_start = next_id
                   /\ next_id' = next_id + 1
                   /\ \A u \in Threads \ {t} :
                        st[u].pc \in {"put_cas", "put_create_f",
                                      "put_create_store", "put_f", "put_ret"}
                            => st[u].id_start < next_id)
        /\ (st[t].pc = "put_ret" /\ TActs(t)
                => /\ PutId(t) \notin IssuedIds
                   /\ \A u \in Threads \ {t} :
                        st[u].pc = "put_ret" => PutId(u) /= PutId(t))
        /\ (st[t].pc = "put_cas" /\ st'[t].pc = "put_create_f"
                => /\ \A u \in Threads : ~Claimed(u, st'[t].pos)
                   /\ \A k \in issued : Pos(k.id) /= st'[t].pos
                   /\ item_hdrs[st'[t].pos].lock = 0)]_vars

C15_Witness ==
    /\ Cardinality(issued) = Size
    /\ Cardinality(IssuedIds) = Size
    /\ spurious
    /\ IssuedIds /= Positions
\* C16 as stated: no operation retries internally: put tries at most Size
\* positions, and get's read makes a single attempt, never another turn of
\* its compare-and-exchange.
C16_NoInternalRetry ==
    \A t \in Threads :
        /\ st[t].i < Size
        /\ ~st[t].retried

\* C16 amended: a put whose claim of a position fails moves on to the next
\* position at once and gives up after Size positions, never trying one
\* twice; a get whose read finds the lock at 0 or below, on its load or on a
\* failed compare-and-exchange, returns at once; a get whose
\* compare-and-exchange fails while the lock is above 0 takes another turn
\* with the value it found.
C16_BoundedAttempts ==
    [][\A t \in Threads :
        /\ st'[t].i < Size
        /\ st[t].pc = "put_cas" /\ TActs(t) =>
              \/ st'[t].pc = "put_create_f"
              \/ /\ st'[t].pc = "put_cas"
                 /\ st'[t].i = st[t].i + 1
                 /\ st'[t].id_start = st[t].id_start
              \/ /\ st'[t].pc = "put_none"
                 /\ st[t].i = Size - 1
        /\ st[t].pc = "idle" /\ st'[t].pc = "get_none" =>
              item_hdrs[Pos(st'[t].token)].lock <= 0
        /\ st[t].pc = "idle" /\ st'[t].pc = "get_cas" =>
              /\ item_hdrs[Pos(st'[t].token)].lock > 0
              /\ ~st'[t].retried
        /\ st[t].pc = "get_cas" /\ TActs(t) =>
              \/ st'[t].pc = "get_f"
              \/ /\ st'[t].pc = "get_cas"
                 /\ st'[t].retried
                 /\ st'[t].prev = item_hdrs[st[t].pos].lock
                 /\ st'[t].prev > 0
              \/ /\ st'[t].pc = "get_none"
                 /\ item_hdrs[st[t].pos].lock <= 0
      ]_vars

C16_Witness ==
    \E t, u \in Threads :
        /\ st[t].pc = "put_none"
        /\ st[u].pc = "get_cas"
        /\ st[u].retried

\* C17: the steps of a put that fails leave every slot as it was: the
\* fetch_add moves only next_id, a failed claim of a position leaves the
\* position's lock, id, reference count and data unchanged and does not run
\* the callback, and the return of None changes nothing; so a put that
\* returns None has changed nothing but next_id.
C17_FailedPutChangesNothing ==
    [][\A t \in Threads :
        /\ st[t].pc = "idle" /\ st'[t].pc = "put_cas" =>
              /\ next_id' = next_id + 1
              /\ item_hdrs' = item_hdrs
              /\ items' = items
        /\ st[t].pc = "put_cas" /\ TActs(t) /\ st'[t].pc /= "put_create_f" =>
              /\ st'[t].pc \in {"put_cas", "put_none"}
              /\ st'[t].r = None
              /\ next_id' = next_id
              /\ item_hdrs' = item_hdrs
              /\ items' = items
              /\ tokens' = tokens
              /\ issued' = issued
        /\ st[t].pc = "put_none" /\ TActs(t) =>
              /\ st'[t] = TIdle
              /\ next_id' = next_id
              /\ item_hdrs' = item_hdrs
              /\ items' = items
              /\ tokens' = tokens
              /\ issued' = issued
      ]_vars

C17_Witness ==
    \E t \in Threads :
        /\ st[t].pc = "put_none"
        /\ next_id = MaxPuts
        /\ tokens /= {}
        /\ \A pos \in Positions :
              item_hdrs[pos] = [ItemHdrDefault EXCEPT !.lock = 1]

\* C17 for the Lock alone: a create, update or read that returns because its
\* claim failed returns None, has not run its callback and leaves the lock
\* state as it was.
C17_LockFrame ==
    [][\A p \in Procs : \A op \in {"create", "update", "read"} :
        GivesUp(p, op) => ReturnsAbsent(p)]_vars

\* C18: in every reachable state of the Lock the state is at least -1; it is
\* -1 exactly when one caller, and only one, is inside a create or update
\* (from its winning claim to its release store), and then no caller is
\* inside a read; otherwise it is 0 with no caller inside a callback, or 1
\* plus the number of callers inside a read (from the winning increment to
\* the decrement).
C18_StateCountsHolders ==
    /\ refcount >= -1
    /\ Cardinality(Writers) <= 1
    /\ (refcount = -1 <=> Cardinality(Writers) = 1)
    /\ (refcount = -1 => Readers = {})
    /\ (refcount = 0 => Readers = {} /\ Writers = {})
    /\ (refcount /= -1 =>
            \/ refcount = 0
            \/ refcount = 1 + Cardinality(Readers))

C18_Witness ==
    /\ refcount = 3
    /\ Cardinality(Readers) = 2
    /\ Writers = {}
    /\ last.op = "create"
    /\ last.seen = 3
    /\ ~last.ran

\* C19: no step returns a slot's lock to 0 once a put has claimed the slot, so
\* at most Size puts ever succeed, and once every slot is claimed no put
\* claims a position: each one returns None.
C19_OccupiedForever ==
    [][/\ \A pos \in Positions :
            item_hdrs[pos].lock /= 0 => item_hdrs'[pos].lock /= 0
       /\ Cardinality(issued') <= Size
       /\ (\A pos \in Positions : item_hdrs[pos].lock /= 0) =>
            \A t \in Threads :
                st[t].pc = "put_cas" /\ TActs(t) =>
                    st'[t].pc \in {"put_cas", "put_none"}
      ]_vars

C19_Witness ==
    /\ Cardinality(issued) = Size
    /\ \A pos \in Positions : item_hdrs[pos].lock >= 1
    /\ \E t, u \in Threads :
        /\ st[t].pc = "put_none"
        /\ st[u].pc = "get_ret"

\* C20: with Tokens obtained only from put and each consumed by at most one
\* get, no get is at work on a slot, and so no get callback reads its data,
\* while the put that claimed the slot has not returned, in particular while
\* put's callback f is writing the data with the slot's lock already at 1.
C20_NoGetDuringPut ==
    \A t, u \in Threads : \A pos \in Positions :
        Claimed(t, pos) => ~Getting(u, pos)

C20_Witness ==
    \E t, u \in Threads :
        /\ st[t].pc = "put_f"
        /\ item_hdrs[st[t].pos].lock = 1
        /\ st[u].pc = "get_f"
        /\ st[u].pos /= st[t].pos

====
